---- MODULE Spec2Model ----
(***************************************************************************)
(* Model of the Discord linker bot (DiscordLinkerBot): the /link handler   *)
(* (handleLinkCommand) and the /resync handler (handleResyncCommand)       *)
(* running as concurrent interaction callbacks over the shared `players`   *)
(* table and the guild's role membership.  Every `await` of a handler is   *)
(* one step; a query, an update or a gateway call is atomic and may throw. *)
(***************************************************************************)
EXTENDS Integers, FiniteSets, Sequences, TLC

\* ---------------------------------------------------------------- bounds
MaxInvocations == 2

Invocations == 1..MaxInvocations
Accounts == {"a1", "a2"}
Users == {"u1", "u2"}
Codes == {"c1", "c2"}

NULL == "null"

VARIABLES
  phase,        \* position of start(): "constructed", "running" or "exited"
  db,           \* this.db: TRUE once the connection exists
  players,      \* the players table: id -> [discord_id, link_code]
  roles,        \* set of users that hold the role in the guild
  pc,           \* position of each interaction callback
  interaction,  \* the command, user and code option of each callback
  player,       \* local `player` (the id of playerRows[0]) of each callback
  reply,        \* the content passed to interaction.reply, NULL before it
  startPlayers, \* history: the table when the latest callback began
  startRoles,   \* history: the role holders when the latest callback began
  solo,         \* history: no other callback was in flight during this one
  storeErr,     \* history: a db.execute of this callback threw
  gwErr,        \* history: a guild/member call of this callback threw
  committed,    \* history: the id of the row this callback updated, or NULL
  grants,       \* history: number of member.roles.add calls of this callback
  resolved,     \* history: what this callback found of the guild and the role
  replies       \* history: number of interaction.reply calls of this callback

vars == <<phase, db, players, roles, pc, interaction, player, reply,
          startPlayers, startRoles, solo, storeErr, gwErr, committed, grants,
          resolved, replies>>

store == <<phase, db, players, roles>>
hist == <<startPlayers, startRoles, solo, storeErr, gwErr, committed, grants>>

\* ------------------------------------------------------------ the table
Player == [discord_id : Users \cup {NULL}, link_code : Codes \cup {NULL}]

\* SELECT * FROM players WHERE discord_id = ?
ExistingRows(ps, userId) == {a \in Accounts : ps[a].discord_id = userId}

\* SELECT * FROM players WHERE link_code = ? AND discord_id IS NULL
PlayerRows(ps, linkCode) ==
  {a \in Accounts : ps[a].link_code = linkCode /\ ps[a].discord_id = NULL}

\* (variant) The UPDATE leaves link_code as it was.
UpdatePlayer_KeepsCode(ps, userId, id) ==
  [ps EXCEPT ![id] = [discord_id |-> userId, link_code |-> ps[id].link_code]]

\* (variant) The UPDATE has no WHERE clause.
UpdatePlayer_AllRows(ps, userId, id) ==
  [a \in DOMAIN ps |-> [discord_id |-> userId, link_code |-> NULL]]

\* UPDATE players SET discord_id = ?, link_code = NULL WHERE id = ?
UpdatePlayer(ps, userId, id) ==
  [ps EXCEPT ![id] = [discord_id |-> userId, link_code |-> NULL]]

\* (variant) The cache check looks for the wrong id and never finds it.
HasRole_NeverFound(rs, userId) == userId \in (rs \ Users)

\* member.roles.cache.has(role.id)
HasRole(rs, userId) == userId \in rs

\* (variant) The role is not added.
AddRole_Nothing(rs, userId) == rs \cap rs

\* (variant) The member's roles are set to the one role holder.
AddRole_Replaces(rs, userId) == {u \in {userId} : rs = rs}

\* member.roles.add(role)
AddRole(rs, userId) == rs \cup {userId}

\* --------------------------------------------------------------- replies
LinkReplies == {"DbConnError", "AlreadyLinked", "InvalidCode", "Linked", "LinkError"}
ResyncReplies == {"DbConnError", "NotLinked", "RoleConfigMissing", "RoleNotFound",
                  "AlreadyCurrent", "Reconciled", "ResyncError"}

NoCall == [commandName |-> NULL, user |-> NULL, code |-> NULL]

\* ------------------------------------------------------------------ Init
UniqueLinks(ps) ==
  \A a, b \in Accounts :
    (ps[a].discord_id # NULL /\ ps[a].discord_id = ps[b].discord_id) => a = b

Row(d, c) == [discord_id |-> d, link_code |-> c]

\* The tables the bot starts on, one for each shape of table up to renaming
\* of accounts, users and codes: rows are left by the issuing system
\* (unlinked, without a code or with a code of their own) or by earlier
\* links.
InitialTables ==
  { [a \in Accounts |-> IF a = "a1" THEN Row(NULL, "c1") ELSE Row(NULL, NULL)],
    [a \in Accounts |-> IF a = "a1" THEN Row(NULL, "c1") ELSE Row(NULL, "c2")],
    [a \in Accounts |-> IF a = "a1" THEN Row("u1", NULL) ELSE Row(NULL, "c1")],
    [a \in Accounts |-> IF a = "a1" THEN Row("u1", NULL) ELSE Row("u2", NULL)] }

Init ==
  /\ phase = "constructed"
  /\ db = FALSE
  /\ players \in InitialTables
  /\ roles \in SUBSET Users
  /\ pc = [i \in Invocations |-> "idle"]
  /\ interaction = [i \in Invocations |-> NoCall]
  /\ player = [i \in Invocations |-> NULL]
  /\ reply = [i \in Invocations |-> NULL]
  /\ startPlayers = players
  /\ startRoles = roles
  /\ solo = [i \in Invocations |-> TRUE]
  /\ storeErr = [i \in Invocations |-> FALSE]
  /\ gwErr = [i \in Invocations |-> FALSE]
  /\ committed = [i \in Invocations |-> NULL]
  /\ grants = [i \in Invocations |-> 0]
  /\ resolved = [i \in Invocations |-> "unread"]
  /\ replies = [i \in Invocations |-> 0]

\* ---------------------------------------------------------------- start()
\* connectToDatabase: the connection is made, or the process exits.
ConnectToDatabase ==
  /\ phase = "constructed"
  /\ \/ phase' = "running" /\ db' = TRUE
     \/ phase' = "exited" /\ db' = FALSE
  /\ UNCHANGED <<players, roles, pc, interaction, player, reply, hist,
                 resolved, replies>>

InFlight(i) == pc[i] \notin {"idle", "done"}

\* The callback goes on to its next await.
Goto(i, label) ==
  /\ pc' = [pc EXCEPT ![i] = label]
  /\ UNCHANGED <<reply, player, replies>>

\* The callback ends with interaction.reply(content); its locals are gone.
Finish(i, content) ==
  /\ pc' = [pc EXCEPT ![i] = "done"]
  /\ reply' = [reply EXCEPT ![i] = content]
  /\ player' = [player EXCEPT ![i] = NULL]
  /\ replies' = [replies EXCEPT ![i] = @ + 1]

\* client.on('interactionCreate'): dispatch on the command name, up to the
\* first await of the handler.  Callbacks are numbered in order of arrival.
InteractionCreate(i, commandName, userId, linkCode) ==
  /\ phase = "running"
  /\ pc[i] = "idle"
  /\ i > 1 => pc[i - 1] # "idle"
  /\ interaction' = [interaction EXCEPT ![i] =
       [commandName |-> commandName, user |-> userId, code |-> linkCode]]
  /\ startPlayers' = players
  /\ startRoles' = roles
  /\ solo' = [j \in Invocations |->
               IF \E k \in Invocations : InFlight(k)
                 THEN solo[j] /\ j # i /\ ~InFlight(j)
                 ELSE solo[j]]
  /\ IF ~db
       THEN Finish(i, "DbConnError")
       ELSE Goto(i, IF commandName = "link" THEN "link_existing" ELSE "resync_linked")
  /\ UNCHANGED <<store, storeErr, gwErr, committed, grants, resolved>>

\* --------------------------------------------------- handleLinkCommand
\* (variant) The UPDATE is applied although its db.execute throws.
LinkStoreThrows_AfterWrite(i) ==
  /\ pc[i] \in {"link_existing", "link_code", "link_update"}
  /\ storeErr' = [storeErr EXCEPT ![i] = TRUE]
  /\ Finish(i, "LinkError")
  /\ IF pc[i] = "link_update"
       THEN /\ players' = UpdatePlayer(players, interaction[i].user, player[i])
            /\ committed' = [committed EXCEPT ![i] = player[i]]
       ELSE UNCHANGED <<players, committed>>
  /\ UNCHANGED <<phase, db, roles, interaction, startPlayers, startRoles, solo,
                 resolved,
                 gwErr, grants>>

\* A db.execute throws: nothing is written and the catch block replies.
LinkStoreThrows(i) ==
  /\ pc[i] \in {"link_existing", "link_code", "link_update"}
  /\ storeErr' = [storeErr EXCEPT ![i] = TRUE]
  /\ Finish(i, "LinkError")
  /\ UNCHANGED <<store, interaction, startPlayers, startRoles, solo, resolved, gwErr,
                 committed, grants>>

\* (variant) The check for an existing link is skipped.
LinkSelectExisting_NoCheck(i) ==
  /\ pc[i] = "link_existing"
  /\ Goto(i, "link_code")
  /\ UNCHANGED <<store, interaction, hist, resolved>>

\* Check if user is already linked
LinkSelectExisting(i) ==
  /\ pc[i] = "link_existing"
  /\ IF ExistingRows(players, interaction[i].user) # {}
       THEN Finish(i, "AlreadyLinked")
       ELSE Goto(i, "link_code")
  /\ UNCHANGED <<store, interaction, hist, resolved>>

\* Find player with matching link code; playerRows[0] is any matching row.
LinkSelectCode(i) ==
  /\ pc[i] = "link_code"
  /\ IF PlayerRows(players, interaction[i].code) = {}
       THEN Finish(i, "InvalidCode")
       ELSE /\ \E a \in PlayerRows(players, interaction[i].code) :
                 player' = [player EXCEPT ![i] = a]
            /\ pc' = [pc EXCEPT ![i] = "link_update"]
            /\ UNCHANGED <<reply, replies>>
  /\ UNCHANGED <<store, interaction, hist, resolved>>

\* Update player with Discord ID and clear link code; without a guild or a
\* configured role id the handler goes straight on to the success reply.
\* guildAndRoleId is the value of `guild && process.env.DISCORD_ROLE_ID`,
\* drawn where the handler reads it.
LinkUpdate(i, guildAndRoleId) ==
  /\ pc[i] = "link_update"
  /\ players' = UpdatePlayer(players, interaction[i].user, player[i])
  /\ committed' = [committed EXCEPT ![i] = player[i]]
  /\ resolved' = [resolved EXCEPT ![i] =
       IF guildAndRoleId THEN "configured" ELSE "unconfigured"]
  /\ IF guildAndRoleId
       THEN Goto(i, "link_fetch")
       ELSE Finish(i, "Linked")
  /\ UNCHANGED <<phase, db, roles, interaction, startPlayers, startRoles, solo,
                 storeErr, gwErr, grants>>

\* (variant) There is no catch block: the rejection leaves the handler.
LinkGatewayThrows_Escapes(i) ==
  /\ pc[i] \in {"link_fetch", "link_add"}
  /\ gwErr' = [gwErr EXCEPT ![i] = TRUE]
  /\ grants' = [grants EXCEPT ![i] = IF pc[i] = "link_add" THEN @ + 1 ELSE @]
  /\ pc' = [pc EXCEPT ![i] = "done"]
  /\ player' = [player EXCEPT ![i] = NULL]
  /\ UNCHANGED <<store, interaction, startPlayers, startRoles, solo, resolved, storeErr,
                 committed, reply, replies>>

\* guild.members.fetch, guild.roles.fetch or member.roles.add throws: the
\* role is not added and the catch block replies.
LinkGatewayThrows(i) ==
  /\ pc[i] \in {"link_fetch", "link_add"}
  /\ gwErr' = [gwErr EXCEPT ![i] = TRUE]
  /\ grants' = [grants EXCEPT ![i] = IF pc[i] = "link_add" THEN @ + 1 ELSE @]
  /\ Finish(i, "LinkError")
  /\ UNCHANGED <<store, interaction, startPlayers, startRoles, solo, resolved, storeErr,
                 committed>>

\* const member = await guild.members.fetch(userId);
\* const role = await guild.roles.fetch(...): a role, or null.  The two
\* fetches write nothing and the handler does not look at the member's
\* roles, so they are one step.
LinkFetch(i) ==
  /\ pc[i] = "link_fetch"
  /\ \/ /\ Goto(i, "link_add")
        /\ resolved' = [resolved EXCEPT ![i] = "role"]
     \/ /\ Finish(i, "Linked")
        /\ resolved' = [resolved EXCEPT ![i] = "norole"]
  /\ UNCHANGED <<store, interaction, hist>>

\* await member.roles.add(role), then the success reply.
LinkAddRole(i) ==
  /\ pc[i] = "link_add"
  /\ roles' = AddRole(roles, interaction[i].user)
  /\ grants' = [grants EXCEPT ![i] = @ + 1]
  /\ Finish(i, "Linked")
  /\ UNCHANGED <<phase, db, players, interaction, startPlayers, startRoles, solo,
                 resolved,
                 storeErr, gwErr, committed>>

\* ------------------------------------------------- handleResyncCommand
ResyncStoreThrows(i) ==
  /\ pc[i] = "resync_linked"
  /\ storeErr' = [storeErr EXCEPT ![i] = TRUE]
  /\ Finish(i, "ResyncError")
  /\ UNCHANGED <<store, interaction, startPlayers, startRoles, solo, resolved, gwErr,
                 committed, grants>>

\* (variant) The check for a link is skipped.
ResyncSelectLinked_NoCheck(i, guildAndRoleId) ==
  /\ pc[i] = "resync_linked"
  /\ IF ~guildAndRoleId
       THEN /\ Finish(i, "RoleConfigMissing")
            /\ resolved' = [resolved EXCEPT ![i] = "unconfigured"]
       ELSE /\ Goto(i, "resync_fetch")
            /\ resolved' = [resolved EXCEPT ![i] = "configured"]
  /\ UNCHANGED <<store, interaction, hist>>

\* Check if user is linked, then the guild and role id configuration.
\* guildAndRoleId is the value of `guild && process.env.DISCORD_ROLE_ID`,
\* drawn where the handler reads it.
ResyncSelectLinked(i, guildAndRoleId) ==
  /\ pc[i] = "resync_linked"
  /\ IF ExistingRows(players, interaction[i].user) = {}
       THEN Finish(i, "NotLinked") /\ resolved' = resolved
       ELSE IF ~guildAndRoleId
              THEN /\ Finish(i, "RoleConfigMissing")
                   /\ resolved' = [resolved EXCEPT ![i] = "unconfigured"]
              ELSE /\ \E a \in ExistingRows(players, interaction[i].user) :
                        player' = [player EXCEPT ![i] = a]
                   /\ pc' = [pc EXCEPT ![i] = "resync_fetch"]
                   /\ resolved' = [resolved EXCEPT ![i] = "configured"]
                   /\ UNCHANGED <<reply, replies>>
  /\ UNCHANGED <<store, interaction, hist>>

ResyncGatewayThrows(i) ==
  /\ pc[i] \in {"resync_fetch", "resync_add"}
  /\ gwErr' = [gwErr EXCEPT ![i] = TRUE]
  /\ grants' = [grants EXCEPT ![i] = IF pc[i] = "resync_add" THEN @ + 1 ELSE @]
  /\ Finish(i, "ResyncError")
  /\ UNCHANGED <<store, interaction, startPlayers, startRoles, solo, resolved, storeErr,
                 committed>>

\* (variant) A role that is not found is added all the same.
ResyncFetch_IgnoresMissingRole(i) ==
  /\ pc[i] = "resync_fetch"
  /\ \/ /\ Goto(i, "resync_add")
        /\ resolved' = [resolved EXCEPT ![i] = "norole"]
     \/ /\ IF HasRole(roles, interaction[i].user)
             THEN Finish(i, "AlreadyCurrent")
             ELSE Goto(i, "resync_add")
        /\ resolved' = [resolved EXCEPT ![i] = "role"]
  /\ UNCHANGED <<store, interaction, hist>>

\* const member = await guild.members.fetch(userId): the member with the
\* roles held now; const role = await guild.roles.fetch(...): null, or a
\* role and then the check of member.roles.cache.  The role lookup reads and
\* writes nothing that changes, so the two fetches are one step.
ResyncFetch(i) ==
  /\ pc[i] = "resync_fetch"
  /\ \/ /\ Finish(i, "RoleNotFound")
        /\ resolved' = [resolved EXCEPT ![i] = "norole"]
     \/ /\ IF HasRole(roles, interaction[i].user)
             THEN Finish(i, "AlreadyCurrent")
             ELSE Goto(i, "resync_add")
        /\ resolved' = [resolved EXCEPT ![i] = "role"]
  /\ UNCHANGED <<store, interaction, hist>>

\* (variant) The resync also resets the row it found.
ResyncAddRole_WritesTable(i) ==
  /\ pc[i] = "resync_add"
  /\ roles' = AddRole(roles, interaction[i].user)
  /\ players' = [players EXCEPT ![player[i]] = Row(NULL, NULL)]
  /\ grants' = [grants EXCEPT ![i] = @ + 1]
  /\ Finish(i, "Reconciled")
  /\ UNCHANGED <<phase, db, interaction, startPlayers, startRoles, solo,
                 resolved, storeErr, gwErr, committed>>

\* Assign role to user, then the success reply.
ResyncAddRole(i) ==
  /\ pc[i] = "resync_add"
  /\ roles' = AddRole(roles, interaction[i].user)
  /\ grants' = [grants EXCEPT ![i] = @ + 1]
  /\ Finish(i, "Reconciled")
  /\ UNCHANGED <<phase, db, players, interaction, startPlayers, startRoles, solo,
                 resolved,
                 storeErr, gwErr, committed>>

\* ------------------------------------------------------------------ Next
Next ==
  \/ ConnectToDatabase
  \/ \E i \in Invocations, u \in Users :
       \/ \E c \in Codes : InteractionCreate(i, "link", u, c)
       \/ InteractionCreate(i, "resync", u, NULL)
  \/ \E i \in Invocations :
       \/ LinkStoreThrows(i)
       \/ LinkSelectExisting(i)
       \/ LinkSelectCode(i)
       \/ \E g \in BOOLEAN : LinkUpdate(i, g)
       \/ LinkGatewayThrows(i)
       \/ LinkFetch(i)
       \/ LinkAddRole(i)
       \/ ResyncStoreThrows(i)
       \/ \E g \in BOOLEAN : ResyncSelectLinked(i, g)
       \/ ResyncGatewayThrows(i)
       \/ ResyncFetch(i)
       \/ ResyncAddRole(i)

Spec == Init /\ [][Next]_vars

\* The continuation of callback i after the await it is suspended at.
Callback(i) ==
  \/ LinkStoreThrows(i)
  \/ LinkSelectExisting(i)
  \/ LinkSelectCode(i)
  \/ \E g \in BOOLEAN : LinkUpdate(i, g)
  \/ LinkGatewayThrows(i)
  \/ LinkFetch(i)
  \/ LinkAddRole(i)
  \/ ResyncStoreThrows(i)
  \/ \E g \in BOOLEAN : ResyncSelectLinked(i, g)
  \/ ResyncGatewayThrows(i)
  \/ ResyncFetch(i)
  \/ ResyncAddRole(i)

\* Every awaited promise of the pool and of the client settles, and the
\* event loop then runs the continuation of the async handler.
FairSpec == Spec /\ \A i \in Invocations : WF_vars(Callback(i))

\* ------------------------------------------------------------- the claims
Done(i) == pc[i] = "done"
IsLink(i) == interaction[i].commandName = "link"
IsResync(i) == interaction[i].commandName = "resync"

\* No callback has arrived after callback i.
Latest(i) == IF i = MaxInvocations THEN TRUE ELSE pc[i + 1] = "idle"

\* Callback i ended, ran with no other callback in flight, and the state is
\* as it left it.
RanAlone(i) == Done(i) /\ solo[i] /\ Latest(i)

\* The outcome of a /link is a link: the success reply, or the catch reply
\* of a gateway failure after the UPDATE.
LinkedOutcome(i) ==
  \/ reply[i] = "Linked"
  \/ reply[i] = "LinkError" /\ gwErr[i] /\ committed[i] # NULL

\* C1: starting from a table where no two rows share a non-null discord_id,
\* in every state reached by any interleaving of /link callbacks at most one
\* row has any given non-null discord_id.
C1_UniqueLinkedIdentity == UniqueLinks(players)

\* C2: of two concurrent /link callbacks of two different unlinked users with
\* the same valid, unconsumed code, whose queries and update do not fail,
\* exactly one ends with a link and the other is told the code is invalid.
C2_RaceHasOneWinner ==
  \A i, j \in Invocations :
    ( /\ j = i + 1 /\ Latest(j)
      /\ Done(i) /\ Done(j) /\ IsLink(i) /\ IsLink(j)
      /\ ~solo[i] /\ ~solo[j]
      /\ interaction[i].user # interaction[j].user
      /\ interaction[i].code = interaction[j].code
      /\ ExistingRows(startPlayers, interaction[i].user) = {}
      /\ ExistingRows(startPlayers, interaction[j].user) = {}
      /\ Cardinality(PlayerRows(startPlayers, interaction[i].code)) = 1
      /\ ~storeErr[i] /\ ~storeErr[j] )
    => \/ LinkedOutcome(i) /\ reply[j] = "InvalidCode"
       \/ LinkedOutcome(j) /\ reply[i] = "InvalidCode"

\* C3: once a row's discord_id is non-null no step changes it.
C3_LinkedIsPermanent ==
  [][\A a \in Accounts :
       players[a].discord_id # NULL
         => players'[a].discord_id = players[a].discord_id]_vars

\* C4: a /link of user r with code c that runs with no other callback in
\* flight, from a table where r is in no row and exactly one unlinked row has
\* link_code c, and whose store and gateway calls do not fail, replies Linked
\* and leaves that row with discord_id r and link_code NULL and every other
\* row as it was.
C4_Pre(i) ==
  /\ RanAlone(i) /\ IsLink(i)
  /\ ~storeErr[i] /\ ~gwErr[i]
  /\ ExistingRows(startPlayers, interaction[i].user) = {}
  /\ Cardinality(PlayerRows(startPlayers, interaction[i].code)) = 1

C4_SuccessfulLink ==
  \A i \in Invocations :
    C4_Pre(i) =>
      /\ reply[i] = "Linked"
      /\ \E a \in PlayerRows(startPlayers, interaction[i].code) :
           /\ players[a] = Row(interaction[i].user, NULL)
           /\ \A b \in Accounts \ {a} : players[b] = startPlayers[b]

C4_Witness ==
  \E i \in Invocations :
    /\ C4_Pre(i) /\ reply[i] = "Linked" /\ grants[i] = 1
    /\ \E b \in Accounts : players[b].link_code # NULL

\* C5: a /link whose UPDATE succeeded and whose role grant then failed ends
\* with a reply that is neither the reply of a full success nor the reply of
\* any /link that updated nothing.
C5_PartialCompletionIsDistinct ==
  \A i, j \in Invocations :
    ( /\ Done(i) /\ IsLink(i) /\ committed[i] # NULL /\ gwErr[i]
      /\ Done(j) /\ IsLink(j) /\ (committed[j] = NULL \/ ~gwErr[j]) )
    => reply[i] # reply[j]

\* C6: a /link whose first query finds a row with the user's discord_id
\* replies AlreadyLinked whatever the code, at that step and in every
\* interleaving, changes no row and adds no role; run with no other callback
\* in flight, so does every /link of a user who is in a row when it begins.
C6_Step(i) ==
  ( /\ pc[i] = "link_existing" /\ pc'[i] # "link_existing"
    /\ ~storeErr'[i]
    /\ \E a \in Accounts : players[a].discord_id = interaction[i].user )
  => /\ pc'[i] = "done" /\ reply'[i] = "AlreadyLinked"
     /\ players' = players /\ roles' = roles
     /\ committed'[i] = NULL /\ grants'[i] = 0

C6_Alone(i) ==
  ( /\ RanAlone(i) /\ IsLink(i) /\ ~storeErr[i]
    /\ \E a \in Accounts : startPlayers[a].discord_id = interaction[i].user )
  => /\ reply[i] = "AlreadyLinked"
     /\ players = startPlayers /\ roles = startRoles
     /\ committed[i] = NULL /\ grants[i] = 0

C6_FirstLinkWins ==
  /\ [](\A i \in Invocations : C6_Alone(i))
  /\ [][\A i \in Invocations : C6_Step(i)]_vars

C6_Witness ==
  \E i \in Invocations :
    /\ RanAlone(i) /\ IsLink(i) /\ reply[i] = "AlreadyLinked"
    /\ \E a \in Accounts :
         /\ players[a].link_code = interaction[i].code
         /\ players[a].discord_id = NULL

\* C7: a /link of an unlinked user whose second query finds no unlinked row
\* with the code replies InvalidCode and changes no row; and no row is linked
\* through its code by two callbacks of different users.
C7_Step(i) ==
  ( /\ pc[i] = "link_code" /\ pc'[i] # "link_code"
    /\ ~storeErr'[i]
    /\ ~\E a \in Accounts : /\ players[a].link_code = interaction[i].code
                            /\ players[a].discord_id = NULL )
  => /\ pc'[i] = "done" /\ reply'[i] = "InvalidCode"
     /\ players' = players /\ roles' = roles
     /\ committed'[i] = NULL

C7_CodeLinksOnce ==
  \A i, j \in Invocations :
    ( /\ committed[i] # NULL /\ committed[i] = committed[j]
      /\ interaction[i].code = interaction[j].code )
    => interaction[i].user = interaction[j].user

C7_InvalidOrConsumedCode ==
  /\ []C7_CodeLinksOnce
  /\ [][\A i \in Invocations : C7_Step(i)]_vars

\* C8: a /link one of whose db.execute calls throws ends with an error reply,
\* has updated no row and has asked for no role; the step at which the call
\* throws changes neither the table nor the roles.
C8_Step(i) ==
  (storeErr'[i] /\ ~storeErr[i]) => (players' = players /\ roles' = roles)

C8_Ended(i) ==
  (Done(i) /\ IsLink(i) /\ storeErr[i])
  => /\ reply[i] \in {"DbConnError", "LinkError"}
     /\ committed[i] = NULL /\ grants[i] = 0

C8_StoreUnavailable ==
  /\ [](\A i \in Invocations : C8_Ended(i))
  /\ [][\A i \in Invocations : C8_Step(i)]_vars

C8_Witness ==
  \E i \in Invocations :
    /\ Done(i) /\ IsLink(i) /\ storeErr[i] /\ reply[i] = "LinkError"
    /\ \E a \in Accounts :
         /\ players[a].link_code = interaction[i].code
         /\ players[a].discord_id = NULL

\* The gateway calls of a /resync succeeded and found the guild, the role id
\* and the role.
GatewayOk(i) ==
  ~gwErr[i] /\ reply[i] \notin {"RoleConfigMissing", "RoleNotFound"}

\* Callback i + 1 is a /resync of the same user as the /resync i, begun after
\* i ended, with no other callback in flight during or between the two.
ResyncTwice(i) ==
  /\ i + 1 \in Invocations
  /\ Done(i) /\ solo[i] /\ IsResync(i)
  /\ RanAlone(i + 1) /\ IsResync(i + 1)
  /\ interaction[i].user = interaction[i + 1].user

\* C9 as stated: the second of two /resync in succession of the same user
\* replies AlreadyCurrent (in neither of them does a store or gateway call
\* throw).
C9_SecondIsAlreadyCurrent ==
  \A i \in Invocations :
    ( /\ ResyncTwice(i)
      /\ ~storeErr[i] /\ ~gwErr[i] /\ ~storeErr[i + 1] /\ ~gwErr[i + 1] )
    => reply[i + 1] = "AlreadyCurrent"

\* C9 as amended: the second of two /resync in succession of the same user
\* replies AlreadyCurrent when the first replied Reconciled or AlreadyCurrent
\* and the second's store query and gateway calls succeed and find the guild
\* and the role.
C9_Pre(i) ==
  /\ ResyncTwice(i)
  /\ reply[i] \in {"Reconciled", "AlreadyCurrent"}
  /\ ~storeErr[i + 1] /\ GatewayOk(i + 1)

C9_SecondIsAlreadyCurrentAfterSuccess ==
  \A i \in Invocations : C9_Pre(i) => reply[i + 1] = "AlreadyCurrent"

C9_Witness ==
  \E i \in Invocations :
    C9_Pre(i) /\ reply[i] = "Reconciled" /\ reply[i + 1] = "AlreadyCurrent"

\* C10: a /link that updated its row and then failed at the gateway, or made
\* no grant, leaves the row linked; a /resync of a user who is in a row and
\* does not hold the role, run with no other callback in flight and with its
\* store query and gateway calls succeeding, replies Reconciled, leaves the
\* user holding the role and the table as it was; the /resync after it
\* replies AlreadyCurrent.
C10_LinkKept(i) ==
  ( /\ RanAlone(i) /\ IsLink(i) /\ committed[i] # NULL
    /\ (gwErr[i] \/ grants[i] = 0) )
  => /\ players[committed[i]] = Row(interaction[i].user, NULL)
     /\ (interaction[i].user \in roles <=> interaction[i].user \in startRoles)

C10_Pre(i) ==
  /\ RanAlone(i) /\ IsResync(i)
  /\ \E a \in Accounts : startPlayers[a].discord_id = interaction[i].user
  /\ interaction[i].user \notin startRoles
  /\ ~storeErr[i] /\ GatewayOk(i)

C10_Reconciled(i) ==
  C10_Pre(i) => /\ reply[i] = "Reconciled"
                /\ interaction[i].user \in roles
                /\ players = startPlayers

C10_Then(i) ==
  ( /\ ResyncTwice(i) /\ reply[i] = "Reconciled"
    /\ ~storeErr[i + 1] /\ GatewayOk(i + 1) )
  => /\ reply[i + 1] = "AlreadyCurrent"
     /\ interaction[i].user \in roles

C10_LinkedWithoutRoleRecovers ==
  \A i \in Invocations : C10_LinkKept(i) /\ C10_Reconciled(i) /\ C10_Then(i)

\* A /link whose grant failed, then a /resync of the same user that repairs it.
C10_Witness ==
  \E i \in Invocations :
    /\ i + 1 \in Invocations
    /\ Done(i) /\ solo[i] /\ IsLink(i) /\ committed[i] # NULL /\ gwErr[i]
    /\ interaction[i + 1].user = interaction[i].user
    /\ C10_Pre(i + 1) /\ reply[i + 1] = "Reconciled"

\* Callback i takes a step of the /link handler, of the /resync handler.
LinkSteps(i) == pc'[i] # pc[i] /\ interaction'[i].commandName = "link"
ResyncSteps(i) == pc'[i] # pc[i] /\ interaction'[i].commandName = "resync"

\* C11: a /resync whose query finds no row with the user's discord_id
\* replies NotLinked at that step, in every interleaving, without a gateway
\* call and without a grant; run with no other callback in flight, so does
\* every /resync of a user who is in no row when it begins.
C11_Step(i) ==
  ( /\ pc[i] = "resync_linked" /\ pc'[i] # "resync_linked"
    /\ ~storeErr'[i]
    /\ ~\E a \in Accounts : players[a].discord_id = interaction[i].user )
  => /\ pc'[i] = "done" /\ reply'[i] = "NotLinked"
     /\ roles' = roles /\ players' = players
     /\ grants'[i] = 0 /\ resolved'[i] = "unread" /\ ~gwErr'[i]

C11_Alone(i) ==
  ( /\ RanAlone(i) /\ IsResync(i) /\ ~storeErr[i]
    /\ ~\E a \in Accounts : startPlayers[a].discord_id = interaction[i].user )
  => /\ reply[i] = "NotLinked"
     /\ roles = startRoles
     /\ grants[i] = 0 /\ resolved[i] = "unread" /\ ~gwErr[i]

C11_NotLinked ==
  /\ [](\A i \in Invocations : C11_Alone(i))
  /\ [][\A i \in Invocations : C11_Step(i)]_vars

C11_Witness ==
  \E i \in Invocations :
    /\ RanAlone(i) /\ IsResync(i) /\ reply[i] = "NotLinked"
    /\ interaction[i].user \notin roles

\* C12: a /resync of a linked user that finds no guild, no role id or no
\* role ends there with a role-unavailable reply, has made no grant, and the
\* step changes no role; one that found the role ends with AlreadyCurrent or
\* Reconciled, or with the catch reply when its grant threw.
C12_Ended(i) ==
  /\ (IsResync(i) /\ resolved[i] = "unconfigured")
       => Done(i) /\ reply[i] = "RoleConfigMissing" /\ grants[i] = 0
  /\ (IsResync(i) /\ resolved[i] = "norole")
       => Done(i) /\ reply[i] = "RoleNotFound" /\ grants[i] = 0
  /\ (IsResync(i) /\ Done(i) /\ resolved[i] = "role")
       => IF gwErr[i]
            THEN reply[i] = "ResyncError" /\ grants[i] = 1
            ELSE reply[i] \in {"AlreadyCurrent", "Reconciled"}

C12_Step(i) ==
  (ResyncSteps(i) /\ resolved'[i] \in {"unconfigured", "norole"})
  => roles' = roles /\ players' = players

C12_RoleUnavailable ==
  /\ [](\A i \in Invocations : C12_Ended(i))
  /\ [][\A i \in Invocations : C12_Step(i)]_vars

C12_Witness ==
  \E i, j \in Invocations :
    /\ IsResync(i) /\ reply[i] \in {"RoleConfigMissing", "RoleNotFound"}
    /\ \E a \in Accounts : players[a].discord_id = interaction[i].user
    /\ IsResync(j) /\ reply[j] = "ResyncError" /\ grants[j] = 1
    /\ interaction[j].user \notin roles

\* C13: no step of a /resync changes the players table.
C13_ReconcilerFrame ==
  [][\A i \in Invocations : ResyncSteps(i) => players' = players]_vars

C13_Witness ==
  \E i \in Invocations :
    /\ IsResync(i) /\ reply[i] = "Reconciled"
    /\ \E a \in Accounts : players[a].link_code # NULL

\* C14: every step that sets a row's discord_id sets its link_code to NULL
\* and finds the discord_id NULL; and every row with a discord_id has
\* link_code NULL.
C14_Step ==
  \A a \in Accounts :
    players'[a].discord_id # players[a].discord_id
      => players'[a].link_code = NULL /\ players[a].discord_id = NULL

C14_CodeConsumedWithLink ==
  /\ [](\A a \in Accounts :
          players[a].discord_id # NULL => players[a].link_code = NULL)
  /\ [][C14_Step]_vars

\* C15: a /link changes at most one row, in at most one step, asks for the
\* role at most once and only after its own UPDATE; one that ends with
\* AlreadyLinked, InvalidCode or a store error has done neither.
C15_Step(i) ==
  LinkSteps(i) =>
    /\ Cardinality({a \in Accounts : players'[a] # players[a]}) <= 1
    /\ players' # players => committed[i] = NULL /\ committed'[i] # NULL
    /\ grants'[i] # grants[i] => committed[i] # NULL /\ grants[i] = 0

C15_Ended(i) ==
  IsLink(i) =>
    /\ grants[i] <= 1
    /\ grants[i] > 0 => committed[i] # NULL
    /\ ( Done(i) /\ ( \/ reply[i] \in {"AlreadyLinked", "InvalidCode", "DbConnError"}
                      \/ storeErr[i] ) )
         => grants[i] = 0 /\ committed[i] = NULL

C15_BoundedSideEffects ==
  /\ [](\A i \in Invocations : C15_Ended(i))
  /\ [][\A i \in Invocations : C15_Step(i)]_vars

C15_Witness ==
  \E i \in Invocations :
    /\ Done(i) /\ IsLink(i) /\ grants[i] = 1 /\ committed[i] # NULL
    /\ \E a \in Accounts \ {committed[i]} : players[a].link_code # NULL

\* C16: no step of a /resync takes the role from anyone; a /resync that
\* finds the role and the user holding it replies AlreadyCurrent at that
\* step, which changes no role and makes no grant.
C16_Step(i) ==
  ResyncSteps(i) =>
    /\ roles \subseteq roles'
    /\ reply'[i] = "AlreadyCurrent" => roles' = roles /\ grants'[i] = 0
    /\ ( /\ pc[i] = "resync_fetch" /\ resolved'[i] = "role"
         /\ interaction[i].user \in roles )
       => pc'[i] = "done" /\ reply'[i] = "AlreadyCurrent"

C16_NeverRevokes ==
  [][\A i \in Invocations : C16_Step(i)]_vars

C16_Witness ==
  \E i, j \in Invocations :
    /\ IsResync(i) /\ reply[i] = "AlreadyCurrent"
    /\ IsResync(j) /\ reply[j] = "Reconciled"
    /\ roles = Users

\* C17: with every awaited store and gateway call settling, every /link
\* and every /resync callback ends; it has replied once when it has ended
\* and not before, with one of the replies of its command, whether or not a
\* call threw.  (interaction.reply itself is taken to succeed.)
C17_One(i) ==
  /\ replies[i] = (IF Done(i) THEN 1 ELSE 0)
  /\ ~Done(i) => reply[i] = NULL
  /\ (Done(i) /\ IsLink(i)) => reply[i] \in LinkReplies
  /\ (Done(i) /\ IsResync(i)) => reply[i] \in ResyncReplies

C17_ExactlyOneOutcome ==
  /\ [](\A i \in Invocations : C17_One(i))
  /\ \A i \in Invocations : (pc[i] # "idle") ~> Done(i)

C17_Witness ==
  \E i, j \in Invocations :
    /\ IsLink(i) /\ Done(i) /\ gwErr[i] /\ replies[i] = 1
    /\ IsResync(j) /\ Done(j) /\ storeErr[j] /\ replies[j] = 1

\* C18: whenever a /link has ended with the success reply, or with the catch
\* reply of a gateway failure after its UPDATE, some row has the user's
\* discord_id, then and in every later state.
C18_SuccessIsTruthful ==
  \A i \in Invocations :
    (Done(i) /\ IsLink(i) /\ LinkedOutcome(i))
      => \E a \in Accounts : players[a].discord_id = interaction[i].user

\* C19: every step in which member.roles.add succeeds for a callback's user
\* is taken in a state where some row has that user's discord_id.
C19_GrantsFollowStore ==
  [][\A i \in Invocations :
       (grants'[i] > grants[i] /\ ~gwErr'[i])
         => \E a \in Accounts : players[a].discord_id = interaction[i].user]_vars

\* C20: a /link that ended with the success reply found the role, asked for
\* it once without a failure, and its user holds the role.
C20_LinkedMeansGranted ==
  \A i \in Invocations :
    (Done(i) /\ IsLink(i) /\ reply[i] = "Linked")
      => /\ resolved[i] = "role"
         /\ grants[i] = 1 /\ ~gwErr[i]

TypeOK ==
  /\ phase \in {"constructed", "running", "exited"}
  /\ db \in BOOLEAN
  /\ players \in [Accounts -> Player]
  /\ roles \subseteq Users
  /\ \A i \in Invocations : reply[i] \in LinkReplies \cup ResyncReplies \cup {NULL}
====
